---------------------------- MODULE Spec2Model ----------------------------
(***************************************************************************)
(* Model of EnhancedFacultySearchEngine (src/front/search_engine_improved  *)
(* .py): the hybrid ranking engine, its build pipeline and its cache.      *)
(*                                                                         *)
(* Texts are strings.  Floating-point numbers are exact rationals <<n, d>> *)
(* with d > 0; the undefined quotient 0/0 is NaN == <<0, 0>>.  Embedding   *)
(* vectors have dimension 1, so the Euclidean norm is the absolute value.  *)
(* An optional value (Python None or an object) is a sequence of length 0  *)
(* or 1.                                                                   *)
(***************************************************************************)
EXTENDS Integers, Sequences, FiniteSets, TLC

(***************************************************************************)
(* Bounds of the model.                                                    *)
(***************************************************************************)
MaxTopK == 2

(***************************************************************************)
(* Optional values.                                                        *)
(***************************************************************************)
None == <<>>
Some(v) == <<v>>
IsNone(o) == Len(o) = 0
Val(o) == o[1]

(***************************************************************************)
(* Exact rational arithmetic standing for float arithmetic.                *)
(***************************************************************************)
Abs(n) == IF n < 0 THEN 0 - n ELSE n

RECURSIVE GCD(_, _)
GCD(a, b) == IF b = 0 THEN a ELSE GCD(b, a % b)

NaN == <<0, 0>>
IsNaN(r) == r[2] = 0

R(n, d) ==
    IF d = 0 THEN NaN
    ELSE LET g == GCD(Abs(n), Abs(d))
             s == IF d < 0 THEN 0 - 1 ELSE 1
         IN  <<(s * n) \div g, (s * d) \div g>>

RInt(n) == <<n, 1>>
RAdd(a, b) == IF IsNaN(a) \/ IsNaN(b) THEN NaN
              ELSE R(a[1] * b[2] + b[1] * a[2], a[2] * b[2])
RMul(a, b) == IF IsNaN(a) \/ IsNaN(b) THEN NaN
              ELSE R(a[1] * b[1], a[2] * b[2])
RDiv(a, b) == IF IsNaN(a) \/ IsNaN(b) THEN NaN
              ELSE R(a[1] * b[2], a[2] * b[1])
RAbs(a) == <<Abs(a[1]), a[2]>>
\* a < b on floats: every comparison with NaN is false
RLt(a, b) == /\ ~IsNaN(a)
             /\ ~IsNaN(b)
             /\ a[1] * b[2] < b[1] * a[2]
RGt(a, b) == RLt(b, a)

(***************************************************************************)
(* Strings: str.lower(), the `in` substring test, str.strip(),             *)
(* str.split().                                                            *)
(***************************************************************************)
UpperChars == "ABCDEFGHIJKLMNOPQRSTUVWXYZ"
LowerChars == "abcdefghijklmnopqrstuvwxyz"
DigitChars == "0123456789_"

Ch(s, i) == SubSeq(s, i, i)
InChars(c, chars) == \E i \in 1..Len(chars) : Ch(chars, i) = c
IsSpace(c) == c = " "

LowerChar(c) ==
    IF InChars(c, UpperChars)
    THEN Ch(LowerChars, CHOOSE i \in 1..Len(UpperChars) : Ch(UpperChars, i) = c)
    ELSE c

RECURSIVE Lower(_)
Lower(s) ==
    IF s = "" THEN "" ELSE LowerChar(Ch(s, 1)) \o Lower(SubSeq(s, 2, Len(s)))

\* Python's  t in s
Contains(s, t) ==
    \E i \in 1..(Len(s) - Len(t) + 1) : SubSeq(s, i, i + Len(t) - 1) = t

RECURSIVE LStrip(_)
LStrip(s) ==
    IF s # "" /\ IsSpace(Ch(s, 1)) THEN LStrip(SubSeq(s, 2, Len(s))) ELSE s

RECURSIVE RStrip(_)
RStrip(s) ==
    IF s # "" /\ IsSpace(Ch(s, Len(s)))
    THEN RStrip(SubSeq(s, 1, Len(s) - 1))
    ELSE s

Strip(s) == RStrip(LStrip(s))

\* the maximal run of characters satisfying / not satisfying a class that
\* starts at position i ends just before RunEnd
RECURSIVE SpaceRunEnd(_, _)
SpaceRunEnd(s, i) ==
    IF i <= Len(s) /\ IsSpace(Ch(s, i)) THEN SpaceRunEnd(s, i + 1) ELSE i

RECURSIVE TokenEnd(_, _)
TokenEnd(s, i) ==
    IF i <= Len(s) /\ ~IsSpace(Ch(s, i)) THEN TokenEnd(s, i + 1) ELSE i

\* str.split(): the whitespace-separated tokens, in order
RECURSIVE SplitFrom(_, _)
SplitFrom(s, i) ==
    LET b == SpaceRunEnd(s, i)
        e == TokenEnd(s, b)
    IN  IF b > Len(s) THEN <<>>
        ELSE <<SubSeq(s, b, e - 1)>> \o SplitFrom(s, e)

Split(s) == SplitFrom(s, 1)


(***************************************************************************)
(* TextNormalizer.  A missing CSV cell (pandas NaN) is the value NA.       *)
(***************************************************************************)
NA == "<NA>"
IsNA(text) == text = NA

CleanPlaceholders == {"", "not provided", "Not Provided", "N/A", "NA"}

_clean_text(text) ==
    IF IsNA(text) \/ text \in CleanPlaceholders THEN "" ELSE Strip(text)

MeaningfulPlaceholders == {"not provided", "n/a", "na", "none", "nil", "-"}

_is_meaningful_content(text) ==
    LET cleaned == Lower(_clean_text(text))
    IN  IF cleaned = "" THEN FALSE
        ELSE cleaned \notin MeaningfulPlaceholders /\ Len(cleaned) > 5

(***************************************************************************)
(* The input table faculty_data.csv as pandas reads it: a sequence of rows *)
(* of text cells, NA where the cell is empty.  The file is absent, or      *)
(* holds one of the tables below; the last one has the header and no       *)
(* record.                                                                 *)
(***************************************************************************)
Row(n, s, b, p, e) ==
    [name |-> n, areaSpecialization |-> s, biography |-> b,
     publications |-> p, facultyEducation |-> e]

Tables ==
    << << Row("Ann Lee", "machine learning and data", NA,
              "ml papers", "Not Provided"),
          Row(" Bob ", "html design", "wireless data networks", NA, "PhD"),
          Row(NA, NA, NA, NA, NA) >>,
       << Row("Dee", "quantum data", "Machine learning for quantum", NA, NA),
          Row("Eve", "AI", NA, "data mining methods", "MSc in data") >>,
       << >> >>

TableIds == 1..Len(Tables)

(***************************************************************************)
(* FieldRepresentationBuilder: load_and_process_data and                   *)
(* _create_weighted_text.                                                  *)
(***************************************************************************)
Repeat(parts, n) == [i \in 1..(n * Len(parts)) |-> parts[1]]

RECURSIVE Join(_)
Join(parts) ==
    IF Len(parts) = 0 THEN ""
    ELSE IF Len(parts) = 1 THEN parts[1]
    ELSE parts[1] \o " " \o Join(Tail(parts))

_create_weighted_text(row) ==
    LET p1 == IF row.specialization_text # ""
              THEN Repeat(<<row.specialization_text>>, 3) ELSE <<>>
        p2 == IF row.publications_text # ""
              THEN Repeat(<<row.publications_text>>, 2) ELSE <<>>
        p3 == IF row.biography_text # "" THEN <<row.biography_text>> ELSE <<>>
        p4 == IF row.education_text # "" THEN <<row.education_text>> ELSE <<>>
        p5 == IF row.name_text # "" THEN <<row.name_text>> ELSE <<>>
    IN  Join(p1 \o p2 \o p3 \o p4 \o p5)

ProcessRow(raw) ==
    LET n == _clean_text(raw.name)
        s == _clean_text(raw.areaSpecialization)
        b == _clean_text(raw.biography)
        p == _clean_text(raw.publications)
        e == _clean_text(raw.facultyEducation)
        texts ==
            [name_text |-> IF n # "" THEN "Professor " \o n ELSE "",
             specialization_text |->
                 IF s # ""
                 THEN "Expert in " \o s \o ". Research focus: " \o s
                      \o ". Specialization: " \o s
                 ELSE "",
             biography_text |->
                 IF _is_meaningful_content(b)
                 THEN "Background and experience: " \o b ELSE "",
             publications_text |->
                 IF _is_meaningful_content(p)
                 THEN "Research publications and contributions: " \o p ELSE "",
             education_text |->
                 IF _is_meaningful_content(e)
                 THEN "Academic credentials: " \o e ELSE ""]
    IN  [name |-> n, areaSpecialization |-> s, biography |-> b,
         publications |-> p, facultyEducation |-> e,
         name_text |-> texts.name_text,
         specialization_text |-> texts.specialization_text,
         biography_text |-> texts.biography_text,
         publications_text |-> texts.publications_text,
         education_text |-> texts.education_text,
         combined_text |-> _create_weighted_text(texts)]

\* the data frame load_and_process_data stores in self.faculty_data
load_and_process_data(table) == [i \in 1..Len(table) |-> ProcessRow(table[i])]

(***************************************************************************)
(* The embedding-model collaborator: a deterministic function from a text  *)
(* to a vector of dimension 1.                                             *)
(***************************************************************************)
AllChars == LowerChars \o UpperChars \o DigitChars \o " .:-"

CharCode(c) ==
    IF InChars(c, AllChars)
    THEN CHOOSE i \in 1..Len(AllChars) : Ch(AllChars, i) = c
    ELSE 0

EmbedText(t) ==
    IF t = "" THEN RInt(0)
    ELSE RInt(((Len(t) + CharCode(Ch(t, 1))) % 5) - 2)

Encode(texts) == [i \in 1..Len(texts) |-> EmbedText(texts[i])]

(***************************************************************************)
(* EmbeddingAggregator: generate_embeddings.                               *)
(***************************************************************************)
\* the order in which generate_embeddings embeds the fields
EmbedFieldOrder ==
    <<"name", "specialization", "biography", "publications", "education">>

\* self.field_weights, in the order the dictionary is iterated
WeightFieldOrder ==
    <<"specialization", "publications", "biography", "education", "name">>

field_weights ==
    [specialization |-> R(3, 1), publications |-> R(2, 1),
     biography |-> R(2, 1), education |-> R(3, 2), name |-> R(1, 2)]

EmptyDict == [f \in {} |-> <<>>]

FieldText(row, field) ==
    CASE field = "name" -> row.name_text
      [] field = "specialization" -> row.specialization_text
      [] field = "biography" -> row.biography_text
      [] field = "publications" -> row.publications_text
      [] field = "education" -> row.education_text

FieldColumn(fd, field) == [i \in 1..Len(fd) |-> FieldText(fd[i], field)]

\* self.field_embeddings after the first n fields of the loop are embedded
EmbedFields(old, fd, n) ==
    LET done == {EmbedFieldOrder[j] : j \in 1..n}
    IN  [f \in (DOMAIN old) \cup done |->
            IF f \in done THEN Encode(FieldColumn(fd, f)) ELSE old[f]]

RECURSIVE RSum(_)
RSum(seq) == IF Len(seq) = 0 THEN RInt(0) ELSE RAdd(seq[1], RSum(Tail(seq)))

\* the divisor without the weight of the name field
TotalWeightWithoutName ==
    RSum([j \in 1..(Len(WeightFieldOrder) - 1) |->
            field_weights[WeightFieldOrder[j]]])

total_weight == RSum([j \in 1..Len(WeightFieldOrder) |->
                        field_weights[WeightFieldOrder[j]]])

\* combined_embeddings: the sum over the weighted fields present in
\* field_embeddings of (weight / total_weight) * field vector
CombinedEmbeddings(fe, nrows) ==
    [i \in 1..nrows |->
        RSum([j \in 1..Len(WeightFieldOrder) |->
                LET f == WeightFieldOrder[j]
                IN  IF f \in DOMAIN fe
                    THEN RMul(RDiv(field_weights[f], total_weight), fe[f][i])
                    ELSE RInt(0)])]

SingleEmbeddings(fd) == Encode([i \in 1..Len(fd) |-> fd[i].combined_text])

(***************************************************************************)
(* VectorIndex adapter: the two places where the index is filled.          *)
(***************************************************************************)
\* build_index: a zero norm is replaced by 1 before the division
NormalizeClamped(v) ==
    LET norm == RAbs(v)
    IN  RDiv(v, IF norm = RInt(0) THEN RInt(1) ELSE norm)

\* initialize (cache path) and search (query vector): plain division
NormalizePlain(v) == RDiv(v, RAbs(v))

build_index(embeddings) ==
    [i \in 1..Len(embeddings) |-> NormalizeClamped(embeddings[i])]

CacheRebuildIndex(embeddings) ==
    [i \in 1..Len(embeddings) |-> NormalizePlain(embeddings[i])]


(***************************************************************************)
(* The queries the callers send.                                           *)
(***************************************************************************)
Queries == {"", "ml", "Data mining"}

(***************************************************************************)
(* KeywordScorer: _extract_keywords and _keyword_match_score.              *)
(***************************************************************************)
LowerSet == {Ch(LowerChars, i) : i \in 1..Len(LowerChars)}
WordSet == LowerSet \cup {Ch(UpperChars, i) : i \in 1..Len(UpperChars)}
                    \cup {Ch(DigitChars, i) : i \in 1..Len(DigitChars)}

stop_words ==
    {"the", "and", "for", "with", "this", "that", "from", "have", "has",
     "are", "was", "were", "been", "being", "about", "into", "through",
     "during", "before", "after", "above", "below", "between", "under",
     "again", "further", "then", "once", "here", "there", "when", "where",
     "why", "how", "all", "both", "each", "few", "more", "most", "other",
     "some", "such", "only", "own", "same", "than", "too", "very", "can",
     "will", "just", "should", "now"}

\* re.findall(r'\b[a-z]{3,}\b', text): the maximal runs of word characters
\* that consist of at least three letters a-z and nothing else
RegexWords(text) ==
    {SubSeq(text, i, j) : <<i, j>> \in
        {p \in (1..Len(text)) \X (1..Len(text)) :
            /\ p[2] - p[1] + 1 >= 3
            /\ \A n \in p[1]..p[2] : Ch(text, n) \in LowerSet
            /\ p[1] = 1 \/ Ch(text, p[1] - 1) \notin WordSet
            /\ p[2] = Len(text) \/ Ch(text, p[2] + 1) \notin WordSet}}

_extract_keywords(text) == RegexWords(Lower(text)) \ stop_words

\* the texts the engine meets: the queries and the cleaned cells, with
\* their lower-cased forms; the tables below hold the values of the three
\* text functions on them, computed once
RowTexts(raw) ==
    {_clean_text(raw.name), _clean_text(raw.areaSpecialization),
     _clean_text(raw.biography), _clean_text(raw.publications),
     _clean_text(raw.facultyEducation)}

CellTexts ==
    UNION {UNION {RowTexts(Tables[t][i]) : i \in 1..Len(Tables[t])} :
           t \in TableIds}

KnownTexts == LET base == Queries \cup CellTexts
              IN  base \cup {Lower(t) : t \in base}

LowerTable == [t \in KnownTexts |-> Lower(t)]
KeywordTable == [t \in KnownTexts |-> _extract_keywords(t)]
MeaningfulTable == [t \in KnownTexts |-> _is_meaningful_content(t)]

LowerOf(t) == IF t \in KnownTexts THEN LowerTable[t] ELSE Lower(t)
KeywordsOf(t) ==
    IF t \in KnownTexts THEN KeywordTable[t] ELSE _extract_keywords(t)
IsMeaningful(t) ==
    IF t \in KnownTexts THEN MeaningfulTable[t] ELSE _is_meaningful_content(t)

\* field_keyword_weights, in the order the dictionary is iterated
KeywordFieldOrder ==
    <<"areaSpecialization", "publications", "biography",
      "facultyEducation", "name">>

field_keyword_weights ==
    [areaSpecialization |-> R(3, 1), publications |-> R(2, 1),
     biography |-> R(2, 1), facultyEducation |-> R(3, 2), name |-> R(1, 2)]

RowField(row, field) ==
    CASE field = "areaSpecialization" -> row.areaSpecialization
      [] field = "publications" -> row.publications
      [] field = "biography" -> row.biography
      [] field = "facultyEducation" -> row.facultyEducation
      [] field = "name" -> row.name

\* a field adds its share whether or not its content is meaningful
FieldKeywordScoreAnyContent(query_keywords, row, field) ==
    LET content == LowerOf(RowField(row, field))
        matches == query_keywords \cap KeywordsOf(content)
    IN  IF matches # {}
        THEN RMul(field_keyword_weights[field],
                  R(Cardinality(matches), Cardinality(query_keywords)))
        ELSE RInt(0)

\* what one field adds to the keyword score
FieldKeywordScore(query_keywords, row, field) ==
    LET content == LowerOf(RowField(row, field))
        matches == query_keywords \cap KeywordsOf(content)
    IN  IF IsMeaningful(content) /\ matches # {}
        THEN RMul(field_keyword_weights[field],
                  R(Cardinality(matches), Cardinality(query_keywords)))
        ELSE RInt(0)

_keyword_match_score(query, row) ==
    LET query_keywords == KeywordsOf(query)
    IN  IF query_keywords = {} THEN RInt(0)
        ELSE RSum([j \in 1..Len(KeywordFieldOrder) |->
                     FieldKeywordScore(query_keywords, row,
                                       KeywordFieldOrder[j])])

(***************************************************************************)
(* QueryExpander: _expand_query.                                           *)
(***************************************************************************)
expansions ==
    << <<"ml", "machine learning ">>,
       <<"ai", "artificial intelligence">>,
       <<"nlp", "natural language processing">>,
       <<"renewable energy",
         "renewable energy sustainable energy clean energy solar wind">>,
       <<"wireless", "wireless communication telecommunication">>,
       <<"quantum", "quantum computing quantum mechanics quantum physics">>,
       <<"data", "data science data analytics big data data mining">>,
       <<"cyber",
         "cybersecurity security network security information security">>,
       <<"cloud", "cloud computing distributed systems">>,
       <<"iot", "internet of things iot embedded systems sensors">>,
       <<"blockchain", "blockchain distributed ledger cryptocurrency">> >>

\* the loop without its break: the last matching trigger is applied
ExpandQueryNoBreak(query) ==
    LET query_lower == LowerOf(query)
        hits == {j \in 1..Len(expansions) :
                    Contains(query_lower, expansions[j][1])}
    IN  IF hits = {} THEN query
        ELSE LET last == CHOOSE j \in hits : \A h \in hits : j >= h
             IN  query \o " " \o expansions[last][2]

_expand_query(query) ==
    LET query_lower == LowerOf(query)
        hits == {j \in 1..Len(expansions) :
                    Contains(query_lower, expansions[j][1])}
    IN  IF hits = {} THEN query
        ELSE LET first == CHOOSE j \in hits : \A h \in hits : j <= h
             IN  query \o " " \o expansions[first][2]


(***************************************************************************)
(* The vector-index collaborator (faiss.IndexFlatIP.search): the k largest *)
(* inner products in descending order, equal ones by ascending label.  An  *)
(* undefined inner product never enters the result; missing results are    *)
(* padded with label -1 and the lowest float.                              *)
(***************************************************************************)
FltLowest == R(0 - 1000, 1)

RECURSIVE TopK(_, _, _)
TopK(scores, ids, k) ==
    IF k = 0 \/ ids = {} THEN <<>>
    ELSE LET best == CHOOSE i \in ids : \A j \in ids :
                        \/ RGt(scores[i], scores[j])
                        \/ scores[i] = scores[j] /\ i <= j
         IN  <<[label |-> best - 1, score |-> scores[best]]>>
             \o TopK(scores, ids \ {best}, k - 1)

IndexSearch(index, query_vector, k) ==
    LET scores == [i \in 1..Len(index) |-> RMul(index[i], query_vector)]
        valid == {i \in 1..Len(index) : ~IsNaN(scores[i])}
        hits == TopK(scores, valid, k)
    IN  hits \o [i \in 1..(k - Len(hits)) |->
                    [label |-> 0 - 1, score |-> FltLowest]]

(***************************************************************************)
(* HybridRanker: search.                                                   *)
(***************************************************************************)
Min(a, b) == IF a <= b THEN a ELSE b

\* faculty_data.iloc[idx]: -1 is the last row, a label past the end raises
IlocOk(fd, label) ==
    \/ label >= 0 /\ label < Len(fd)
    \/ label = 0 - 1 /\ Len(fd) >= 1
Iloc(fd, label) == IF label = 0 - 1 THEN fd[Len(fd)] ELSE fd[label + 1]

\* the fusion with the weights of the comment on line 283 (70% / 30%)
FuseAsCommented(semantic_score, keyword_score, use_hybrid) ==
    IF use_hybrid /\ RGt(keyword_score, RInt(0))
    THEN RAdd(RMul(R(7, 10), semantic_score), RMul(R(3, 10), keyword_score))
    ELSE semantic_score

\* lines 283-287: the fusion of the semantic and the keyword score
Fuse(semantic_score, keyword_score, use_hybrid) ==
    IF use_hybrid /\ RGt(keyword_score, RInt(0))
    THEN RAdd(RMul(R(3, 4), semantic_score), RMul(R(1, 4), keyword_score))
    ELSE semantic_score

\* the boost without the rule for single tokens
BoostPhraseOnly(query, row) ==
    IF Contains(LowerOf(row.areaSpecialization), LowerOf(query))
    THEN R(13, 10)
    ELSE RInt(1)

\* lines 289-296: the specialization boost
Boost(query, row) ==
    LET query_lower == LowerOf(query)
        spec_lower == LowerOf(row.areaSpecialization)
        words == Split(query_lower)
    IN  IF \/ Contains(spec_lower, query_lower)
           \/ \E w \in 1..Len(words) : Contains(spec_lower, words[w])
        THEN R(13, 10)
        ELSE RInt(1)

\* one pass of the loop over the candidates; pos is the place of the
\* candidate in the order the index returned (kept to tell equal rows apart)
ScoreCandidate(fd, query, use_hybrid, hit, pos) ==
    LET faculty == Iloc(fd, hit.label)
        keyword_score == IF use_hybrid
                         THEN _keyword_match_score(query, faculty)
                         ELSE RInt(0)
        boost == Boost(query, faculty)
    IN  [name |-> faculty.name,
         specialization |-> faculty.areaSpecialization,
         final_score |-> RMul(Fuse(hit.score, keyword_score, use_hybrid),
                              boost),
         semantic_score |-> hit.score,
         keyword_score |-> keyword_score,
         boost_applied |-> boost,
         pos |-> pos,
         rank |-> 0]

\* list.sort(key=final_score, reverse=True): stable, descending
InsertDesc(sorted, x) ==
    LET before == {p \in 1..Len(sorted) :
                      RLt(sorted[p].final_score, x.final_score)}
        at == IF before = {} THEN Len(sorted) + 1
              ELSE CHOOSE p \in before : \A q \in before : p <= q
    IN  SubSeq(sorted, 1, at - 1) \o <<x>> \o SubSeq(sorted, at, Len(sorted))

RECURSIVE SortedPrefix(_, _)
SortedPrefix(list, n) ==
    IF n = 0 THEN <<>> ELSE InsertDesc(SortedPrefix(list, n - 1), list[n])

\* the sort without reverse=True
SortAscending(list) ==
    LET sorted == SortedPrefix(list, Len(list))
    IN  [i \in 1..Len(list) |-> sorted[Len(list) + 1 - i]]

SortByFinalScore(list) == SortedPrefix(list, Len(list))

Truncate(list, top_k) == SubSeq(list, 1, Min(top_k, Len(list)))

AddRank(list) == [i \in 1..Len(list) |-> [list[i] EXCEPT !.rank = i]]

NoSearch ==
    [query |-> "", top_k |-> 0, use_hybrid |-> FALSE, outcome |-> "none",
     stages |-> {}, candidates |-> <<>>, results |-> <<>>]

\* the guard with `and` in place of `or`
NotInitializedBoth(model, index) == IsNone(model) /\ IsNone(index)

\* line 259: the guard of search
NotInitialized(model, index) == IsNone(model) \/ IsNone(index)

\* the response of search(query, top_k, use_hybrid) on the engine fields
\* model, index, faculty_data; encode_ok tells whether the embedding
\* collaborator answers the call
search(model, index, faculty_data, query, top_k, use_hybrid, encode_ok) ==
    LET call == [NoSearch EXCEPT !.query = query, !.top_k = top_k,
                                 !.use_hybrid = use_hybrid]
        expanded_query == _expand_query(query)
        query_normalized == NormalizePlain(EmbedText(expanded_query))
        fd == Val(faculty_data)
        search_k == Min(top_k * 3, Len(fd))
        hits == IndexSearch(Val(index), query_normalized, search_k)
        candidates == [i \in 1..Len(hits) |->
                          ScoreCandidate(fd, query, use_hybrid, hits[i], i)]
    IN  IF NotInitialized(model, index)
        THEN [call EXCEPT !.outcome = "NotInitialized"]
        ELSE IF ~encode_ok
        THEN [call EXCEPT !.outcome = "EmbeddingUnavailable",
                          !.stages = {"expand"}]
        ELSE IF IsNone(model) \/ IsNone(faculty_data) \/ IsNone(index)
        THEN \* Python raises on the use of None (lines 266, 270, 271)
             [call EXCEPT !.outcome = "TypeError", !.stages = {"expand"}]
        ELSE IF \E i \in 1..Len(hits) : ~IlocOk(fd, hits[i].label)
        THEN [call EXCEPT !.outcome = "IndexError",
                          !.stages = {"expand", "embed", "index", "score"}]
        ELSE [call EXCEPT
                 !.outcome = "ok",
                 !.stages = {"expand", "embed", "index", "score"},
                 !.candidates = candidates,
                 !.results =
                     AddRank(Truncate(SortByFinalScore(candidates), top_k))]


\* the responses search can give while the embedding collaborator answers
\* the call of line 266: with no record search_k is 0 (line 270), for
\* which index.search gives an empty result or, in faiss 1.7.3 and later,
\* fails its assertion k > 0
SearchResponses(model, index, faculty_data, query, top_k, use_hybrid) ==
    {search(model, index, faculty_data, query, top_k, use_hybrid, TRUE)}
    \cup
    IF /\ ~NotInitialized(model, index)
       /\ ~IsNone(faculty_data)
       /\ Len(Val(faculty_data)) = 0
    THEN {[NoSearch EXCEPT !.query = query, !.top_k = top_k,
                           !.use_hybrid = use_hybrid,
                           !.outcome = "AssertionError",
                           !.stages = {"expand", "embed", "index"}]}
    ELSE {}

(***************************************************************************)
(* get_statistics, lines 365-381.                                          *)
(***************************************************************************)
CoverageFields ==
    {"areaSpecialization", "biography", "publications", "facultyEducation"}

NoStats ==
    [outcome |-> "none", total_faculty |-> 0, embedding_dimension |-> 0,
     index_size |-> 0, multi_field_embeddings |-> FALSE,
     coverage |-> [f \in {} |-> 0]]

\* the response of get_statistics() on the engine fields: every unset field
\* counts as 0 (lines 368-372); the coverage lines divide by the number of
\* records (line 379)
get_statistics(index, faculty_data, embeddings, field_embeddings) ==
    LET stats ==
            [NoStats EXCEPT
                !.total_faculty =
                    IF IsNone(faculty_data) THEN 0 ELSE Len(Val(faculty_data)),
                !.embedding_dimension = IF IsNone(embeddings) THEN 0 ELSE 1,
                !.index_size = IF IsNone(index) THEN 0 ELSE Len(Val(index)),
                !.multi_field_embeddings = (field_embeddings # EmptyDict)]
    IN  IF IsNone(faculty_data)
        THEN [stats EXCEPT !.outcome = "ok"]
        ELSE IF Len(Val(faculty_data)) = 0
        THEN [NoStats EXCEPT !.outcome = "ZeroDivisionError"]
        ELSE [stats EXCEPT
                 !.outcome = "ok",
                 !.coverage =
                     [f \in CoverageFields |->
                         Cardinality(
                             {i \in 1..Len(Val(faculty_data)) :
                                 IsMeaningful(
                                     RowField(Val(faculty_data)[i], f))})]]

(***************************************************************************)
(* The state.                                                              *)
(*   csv              faculty_data.csv: 0 when absent, else a table id     *)
(*   cache            the two cache files, by mode: None when absent       *)
(*   model, index, faculty_data, embeddings, field_embeddings              *)
(*                    the fields of the engine object                      *)
(*   embMode          history: the mode self.embeddings was generated in   *)
(*   pc, call, outcome  each caller's place in initialize, the arguments   *)
(*                    and path of its current or last call, and how that   *)
(*                    call ended                                           *)
(*   lastSearch       the response of a search call made in this state     *)
(*   lastStats        the response of a get_statistics call made in this   *)
(*                    state                                                *)
(*   applied          a helper function of the engine applied on its own:  *)
(*                    its name, its arguments and its value                *)
(***************************************************************************)
VARIABLES csv, cache, model, index, faculty_data, embeddings,
          field_embeddings, embMode, pc, call, outcome, lastSearch,
          lastStats, applied

vars == <<csv, cache, model, index, faculty_data, embeddings,
          field_embeddings, embMode, pc, call, outcome, lastSearch,
          lastStats, applied>>

program == <<csv, cache, model, index, faculty_data, embeddings,
             field_embeddings, embMode, pc, call, outcome, lastSearch,
             lastStats>>

NoApplied == [fn |-> "none", args |-> <<>>, value |-> <<>>]

engine == <<model, index, faculty_data, embeddings, field_embeddings, embMode>>

Callers == {"c1", "c2"}
Modes == {"multi", "single"}
model_name == "all-MiniLM-L6-v2"

ProcessedTables == [t \in TableIds |-> load_and_process_data(Tables[t])]

\* one cache file for both modes
CacheFileNameShared(use_multi_field) == "multi"

\* line 327: the cache file initialize uses
CacheFileName(use_multi_field) == IF use_multi_field THEN "multi" ELSE "single"

\* fields_before and initialized_before are history: self.field_embeddings
\* at the start of a single-field call whose cache load fails, and whether
\* search was past its guard of lines 259-260 when the call began
NoCall == [force_rebuild |-> FALSE, use_multi_field |-> FALSE,
           path |-> "none", hadCache |-> FALSE, table |-> 0,
           fields_before |-> EmptyDict, initialized_before |-> FALSE]

\* what pickle.dump writes (kind "valid"), with the history of the write:
\* the mode the saved embeddings were generated in, the index of the saving
\* engine.  Kind "garbage" is a file that cannot be unpickled.
Snapshot(kind, fd, emb, fe, mode, idx) ==
    [kind |-> kind, faculty_data |-> fd, embeddings |-> emb,
     field_embeddings |-> fe, mode_written |-> mode, index_at_save |-> idx]

Garbage == Snapshot("garbage", None, None, EmptyDict, "none", None)

\* __init__
Init ==
    /\ csv \in {0} \cup TableIds
    /\ cache = [m \in Modes |-> None]
    /\ model = None
    /\ index = None
    /\ faculty_data = None
    /\ embeddings = None
    /\ field_embeddings = EmptyDict
    /\ embMode = "none"
    /\ pc = [c \in Callers |-> "idle"]
    /\ call = [c \in Callers |-> NoCall]
    /\ outcome = [c \in Callers |-> "none"]
    /\ lastSearch = NoSearch
    /\ lastStats = NoStats
    /\ applied = NoApplied

\* a step that is no search and no get_statistics is taken when the last
\* response has been read, and leaves no response
NoResponse ==
    /\ lastSearch = NoSearch
    /\ lastStats = NoStats
    /\ UNCHANGED <<lastSearch, lastStats, applied>>

(***************************************************************************)
(* initialize, lines 326-348: the cache branch.                            *)
(***************************************************************************)
\* the condition of line 329 without force_rebuild
UseCacheIgnoringForce(force_rebuild, file) == ~IsNone(file)

\* line 329: whether initialize enters the cache branch
UseCache(force_rebuild, file) == ~force_rebuild /\ ~IsNone(file)

\* an except clause that raises the failure to the caller
ExceptCacheFailureRaises(c) ==
    /\ pc' = [pc EXCEPT ![c] = "idle"]
    /\ outcome' = [outcome EXCEPT ![c] = "CacheCorrupt"]

\* lines 347-348: the except clause prints and falls through to the build
ExceptCacheFailure(c) ==
    /\ pc' = [pc EXCEPT ![c] = "load_data"]
    /\ outcome' = [outcome EXCEPT ![c] = "running"]

\* the try block on a file that cannot be unpickled: nothing is assigned
CacheLoadGarbage(c, force_rebuild, use_multi_field) ==
    LET file == cache[CacheFileName(use_multi_field)]
    IN  /\ UseCache(force_rebuild, file)
        /\ Val(file).kind = "garbage"
        /\ ExceptCacheFailure(c)
        /\ call' = [call EXCEPT ![c] =
              [NoCall EXCEPT !.force_rebuild = force_rebuild,
                             !.use_multi_field = use_multi_field,
                             !.initialized_before =
                                 ~NotInitialized(model, index),
                             !.path = "fallback",
                             !.fields_before =
                                 IF use_multi_field THEN EmptyDict
                                 ELSE field_embeddings]]
        /\ UNCHANGED <<model, index, faculty_data, embeddings,
                       field_embeddings, embMode>>

\* the try block on a valid snapshot when SentenceTransformer(...) raises:
\* the three data fields are assigned, the model and the index are not
CacheLoadModelFails(c, force_rebuild, use_multi_field) ==
    LET file == cache[CacheFileName(use_multi_field)]
    IN  /\ UseCache(force_rebuild, file)
        /\ Val(file).kind = "valid"
        /\ faculty_data' = Val(file).faculty_data
        /\ embeddings' = Val(file).embeddings
        /\ field_embeddings' = Val(file).field_embeddings
        /\ embMode' = Val(file).mode_written
        /\ ExceptCacheFailure(c)
        /\ call' = [call EXCEPT ![c] =
              [NoCall EXCEPT !.force_rebuild = force_rebuild,
                             !.use_multi_field = use_multi_field,
                             !.initialized_before =
                                 ~NotInitialized(model, index),
                             !.path = "fallback", !.hadCache = TRUE,
                             !.fields_before =
                                 IF use_multi_field THEN EmptyDict
                                 ELSE field_embeddings]]
        /\ UNCHANGED <<model, index>>

\* the try block runs to its end and initialize returns
CacheHit(c, force_rebuild, use_multi_field) ==
    LET file == cache[CacheFileName(use_multi_field)]
    IN  /\ UseCache(force_rebuild, file)
        /\ Val(file).kind = "valid"
        /\ faculty_data' = Val(file).faculty_data
        /\ embeddings' = Val(file).embeddings
        /\ field_embeddings' = Val(file).field_embeddings
        /\ embMode' = Val(file).mode_written
        /\ model' = Some(model_name)
        /\ index' = Some(CacheRebuildIndex(Val(Val(file).embeddings)))
        /\ pc' = [pc EXCEPT ![c] = "idle"]
        /\ outcome' = [outcome EXCEPT ![c] = "ok"]
        /\ call' = [call EXCEPT ![c] =
              [NoCall EXCEPT !.force_rebuild = force_rebuild,
                             !.use_multi_field = use_multi_field,
                             !.initialized_before =
                                 ~NotInitialized(model, index),
                             !.path = "hit", !.hadCache = TRUE]]

\* force_rebuild, or no cache file: straight to the build
CacheSkipped(c, force_rebuild, use_multi_field) ==
    LET file == cache[CacheFileName(use_multi_field)]
    IN  /\ ~UseCache(force_rebuild, file)
        /\ pc' = [pc EXCEPT ![c] = "load_data"]
        /\ outcome' = [outcome EXCEPT ![c] = "running"]
        /\ call' = [call EXCEPT ![c] =
              [NoCall EXCEPT !.force_rebuild = force_rebuild,
                             !.use_multi_field = use_multi_field,
                             !.initialized_before =
                                 ~NotInitialized(model, index),
                             !.path = "miss",
                             !.hadCache = /\ ~IsNone(file)
                                          /\ Val(file).kind = "valid"]]
        /\ UNCHANGED <<model, index, faculty_data, embeddings,
                       field_embeddings, embMode>>

InitializeCall(c) ==
    /\ pc[c] = "idle"
    /\ \E force_rebuild \in BOOLEAN, use_multi_field \in BOOLEAN :
          \/ CacheLoadGarbage(c, force_rebuild, use_multi_field)
          \/ CacheLoadModelFails(c, force_rebuild, use_multi_field)
          \/ CacheHit(c, force_rebuild, use_multi_field)
          \/ CacheSkipped(c, force_rebuild, use_multi_field)
    /\ NoResponse
    /\ UNCHANGED <<csv, cache>>


(***************************************************************************)
(* initialize, lines 350-363: the build pipeline and the save.             *)
(***************************************************************************)
Raise(c, error) ==
    /\ pc' = [pc EXCEPT ![c] = "idle"]
    /\ outcome' = [outcome EXCEPT ![c] = error]

\* line 351, load_and_process_data on a table without records: the
\* assignment of line 84 raises, because DataFrame.apply(axis=1) on a frame
\* without rows returns a frame, which pandas refuses to store in the one
\* column combined_text; line 86 is not reached
LoadDataRaisesOnEmpty(c) ==
    /\ pc[c] = "load_data"
    /\ csv # 0
    /\ Len(Tables[csv]) = 0
    /\ Raise(c, "ValueError")
    /\ call' = [call EXCEPT ![c].table = csv]
    /\ NoResponse
    /\ UNCHANGED <<csv, cache, model, index, faculty_data, embeddings,
                   field_embeddings, embMode>>

\* line 351, load_and_process_data: pd.read_csv raises when the file is
\* absent
LoadData(c) ==
    /\ pc[c] = "load_data"
    /\ IF csv = 0 THEN TRUE ELSE Len(Tables[csv]) > 0
    /\ IF csv = 0
       THEN /\ Raise(c, "DataSourceMissing")
            /\ UNCHANGED <<faculty_data, call>>
       ELSE /\ faculty_data' = Some(ProcessedTables[csv])
            /\ call' = [call EXCEPT ![c].table = csv]
            /\ pc' = [pc EXCEPT ![c] = "generate_embeddings"]
            /\ UNCHANGED outcome
    /\ NoResponse
    /\ UNCHANGED <<csv, cache, model, index, embeddings, field_embeddings,
                   embMode>>

\* line 352, generate_embeddings
GenerateEmbeddings(c) ==
    /\ pc[c] = "generate_embeddings"
    /\ model' = Some(model_name)
    /\ IF call[c].use_multi_field
       THEN /\ field_embeddings' =
                  EmbedFields(field_embeddings, Val(faculty_data),
                              Len(EmbedFieldOrder))
            /\ embeddings' = Some(CombinedEmbeddings(field_embeddings',
                                                     Len(Val(faculty_data))))
            /\ embMode' = "multi"
       ELSE /\ embeddings' = Some(SingleEmbeddings(Val(faculty_data)))
            /\ embMode' = "single"
            /\ UNCHANGED field_embeddings
    /\ pc' = [pc EXCEPT ![c] = "build_index"]
    /\ NoResponse
    /\ UNCHANGED <<csv, cache, index, faculty_data, call, outcome>>

\* line 125 raises: the embedding model cannot be loaded
ModelLoadFails(c) ==
    /\ pc[c] = "generate_embeddings"
    /\ Raise(c, "EmbeddingUnavailable")
    /\ NoResponse
    /\ UNCHANGED <<csv, cache, model, index, faculty_data, embeddings,
                   field_embeddings, embMode, call>>

\* an encode failure that goes on with zero vectors in the index
EncodeFailsDegraded(c) ==
    /\ pc[c] = "generate_embeddings"
    /\ model' = Some(model_name)
    /\ index' = Some([i \in 1..Len(Val(faculty_data)) |-> RInt(0)])
    /\ Raise(c, "EmbeddingUnavailable")
    /\ NoResponse
    /\ UNCHANGED <<csv, cache, faculty_data, embeddings,
                   field_embeddings, embMode, call>>

\* the first encode call (line 136 or 154) raises: the model is set
EncodeFails(c) ==
    /\ pc[c] = "generate_embeddings"
    /\ model' = Some(model_name)
    /\ Raise(c, "EmbeddingUnavailable")
    /\ NoResponse
    /\ UNCHANGED <<csv, cache, index, faculty_data, embeddings,
                   field_embeddings, embMode, call>>

\* line 353, build_index
BuildIndex(c) ==
    /\ pc[c] = "build_index"
    /\ index' = Some(build_index(Val(embeddings)))
    /\ pc' = [pc EXCEPT ![c] = "save"]
    /\ NoResponse
    /\ UNCHANGED <<csv, cache, model, faculty_data, embeddings,
                   field_embeddings, embMode, call, outcome>>

\* line 357: open(cache_file, 'wb') truncates the file
SaveOpen(c) ==
    /\ pc[c] = "save"
    /\ cache' = [cache EXCEPT ![CacheFileName(call[c].use_multi_field)] =
                    Some(Garbage)]
    /\ pc' = [pc EXCEPT ![c] = "dump"]
    /\ NoResponse
    /\ UNCHANGED <<csv, model, index, faculty_data, embeddings,
                   field_embeddings, embMode, call, outcome>>

\* lines 358-363: pickle.dump writes the three fields, initialize returns
SaveDump(c) ==
    /\ pc[c] = "dump"
    /\ cache' = [cache EXCEPT ![CacheFileName(call[c].use_multi_field)] =
                    Some(Snapshot("valid", faculty_data, embeddings,
                                  field_embeddings, embMode, index))]
    /\ pc' = [pc EXCEPT ![c] = "idle"]
    /\ outcome' = [outcome EXCEPT ![c] = "ok"]
    /\ NoResponse
    /\ UNCHANGED <<csv, model, index, faculty_data, embeddings,
                   field_embeddings, embMode, call>>

\* pickle.dump raises part-way (the disk is full): the file stays truncated
SaveDumpFails(c) ==
    /\ pc[c] = "dump"
    /\ Raise(c, "CacheWriteError")
    /\ NoResponse
    /\ UNCHANGED <<csv, cache, model, index, faculty_data, embeddings,
                   field_embeddings, embMode, call>>

(***************************************************************************)
(* search, lines 250-324.                                                  *)
(***************************************************************************)
\* call and outcome describe the calls of initialize that run or have just
\* returned, lastSearch the search that has just returned: the next
\* operation or event ends what is remembered of the returned calls
ForgetCalls ==
    /\ call' = [c \in Callers |-> IF pc[c] = "idle" THEN NoCall ELSE call[c]]
    /\ outcome' = [c \in Callers |->
                      IF pc[c] = "idle" THEN "none" ELSE outcome[c]]

\* a search that keeps the query vector in self.embeddings
SearchStoringQuery ==
    /\ lastSearch = NoSearch
    /\ lastStats = NoStats
    /\ \A c \in Callers : pc[c] = "idle"
    /\ \E query \in Queries, top_k \in 1..MaxTopK, use_hybrid \in BOOLEAN :
          /\ lastSearch' \in SearchResponses(model, index, faculty_data,
                                              query, top_k, use_hybrid)
          /\ embeddings' = IF lastSearch'.outcome = "ok"
                           THEN Some(<<EmbedText(_expand_query(query))>>)
                           ELSE embeddings
    /\ ForgetCalls
    /\ UNCHANGED <<csv, cache, model, index, faculty_data,
                   field_embeddings, embMode, pc, lastStats, applied>>

\* a search is called between the calls of initialize, and its response
\* is read before the next call
Search ==
    /\ lastSearch = NoSearch
    /\ lastStats = NoStats
    /\ \A c \in Callers : pc[c] = "idle"
    /\ \E query \in Queries, top_k \in 1..MaxTopK, use_hybrid \in BOOLEAN :
          lastSearch' \in SearchResponses(model, index, faculty_data,
                                          query, top_k, use_hybrid)
    /\ ForgetCalls
    /\ UNCHANGED <<csv, cache, model, index, faculty_data, embeddings,
                   field_embeddings, embMode, pc, lastStats, applied>>

\* get_statistics is called between the calls of initialize
GetStatistics ==
    /\ lastSearch = NoSearch
    /\ lastStats = NoStats
    /\ \A c \in Callers : pc[c] = "idle"
    /\ lastStats' = get_statistics(index, faculty_data, embeddings,
                                   field_embeddings)
    /\ ForgetCalls
    /\ UNCHANGED <<csv, cache, model, index, faculty_data, embeddings,
                   field_embeddings, embMode, pc, lastSearch, applied>>

\* the caller reads the response of search or get_statistics
ReadResponse ==
    /\ <<lastSearch, lastStats>> # <<NoSearch, NoStats>>
    /\ lastSearch' = NoSearch
    /\ lastStats' = NoStats
    /\ UNCHANGED <<csv, cache, model, index, faculty_data, embeddings,
                   field_embeddings, embMode, pc, call, outcome, applied>>

(***************************************************************************)
(* The environment: the scraper rewrites or removes the input table, a     *)
(* cache file is damaged, the process is restarted (a new engine object,   *)
(* the files stay).                                                        *)
(***************************************************************************)
Forget ==
    /\ ForgetCalls
    /\ NoResponse

UpdateTable ==
    /\ \E t \in ({0} \cup TableIds) \ {csv} : csv' = t
    /\ Forget
    /\ UNCHANGED <<cache, model, index, faculty_data, embeddings,
                   field_embeddings, embMode, pc>>

\* a cache file is damaged between two calls of initialize
CorruptCache ==
    /\ \A c \in Callers : pc[c] = "idle"
    /\ \E m \in Modes :
          /\ ~IsNone(cache[m])
          /\ Val(cache[m]).kind = "valid"
          /\ cache' = [cache EXCEPT ![m] = Some(Garbage)]
    /\ Forget
    /\ UNCHANGED <<csv, model, index, faculty_data, embeddings,
                   field_embeddings, embMode, pc>>

Restart ==
    /\ model' = None
    /\ index' = None
    /\ faculty_data' = None
    /\ embeddings' = None
    /\ field_embeddings' = EmptyDict
    /\ embMode' = "none"
    /\ pc' = [c \in Callers |-> "idle"]
    /\ call' = [c \in Callers |-> NoCall]
    /\ outcome' = [c \in Callers |-> "none"]
    /\ NoResponse
    /\ UNCHANGED <<csv, cache>>

(***************************************************************************)
(* Spec: one caller at a time, as the applications call the engine.        *)
(* SpecConcurrent: two threads call initialize on the same engine.         *)
(***************************************************************************)
InitializeStep(c) ==
    \/ InitializeCall(c)
    \/ LoadData(c)
    \/ LoadDataRaisesOnEmpty(c)
    \/ GenerateEmbeddings(c)
    \/ ModelLoadFails(c)
    \/ EncodeFails(c)
    \/ BuildIndex(c)
    \/ SaveOpen(c)
    \/ SaveDump(c)
    \/ SaveDumpFails(c)

Next ==
    \/ InitializeStep("c1")
    \/ Search
    \/ GetStatistics
    \/ ReadResponse
    \/ UpdateTable
    \/ CorruptCache
    \/ Restart

Spec == Init /\ [][Next]_vars

\* each of the two threads calls initialize once, on a new engine
FirstInitializeStep(c) ==
    \/ outcome[c] = "none" /\ InitializeCall(c)
    \/ LoadData(c)
    \/ LoadDataRaisesOnEmpty(c)
    \/ GenerateEmbeddings(c)
    \/ ModelLoadFails(c)
    \/ EncodeFails(c)
    \/ BuildIndex(c)
    \/ SaveOpen(c)
    \/ SaveDump(c)
    \/ SaveDumpFails(c)

NextConcurrent == \E c \in Callers : FirstInitializeStep(c)

SpecConcurrent == Init /\ [][NextConcurrent]_vars

(***************************************************************************)
(* SpecFunctions: the helper functions of the engine applied on their own  *)
(* to arguments from bounded sets.                                         *)
(***************************************************************************)
QueryWords ==
    <<"ml", "AI", "Data", "wireless", "html", "email", "Cloud", "phd",
      "mining", "the">>

\* the empty query, one word, two words
FunctionQueries ==
    {""} \cup {QueryWords[i] : i \in 1..Len(QueryWords)}
         \cup {QueryWords[i] \o " " \o QueryWords[j] :
                   i, j \in 1..Len(QueryWords)}

Apply(fn, args, value) ==
    /\ applied = NoApplied
    /\ applied' = [fn |-> fn, args |-> args, value |-> value]
    /\ UNCHANGED program

ApplyExpandQuery ==
    \E query \in FunctionQueries :
        Apply("_expand_query", <<query>>, _expand_query(query))

\* the records of the tables, as load_and_process_data leaves them
FunctionRows ==
    UNION {{ProcessedTables[t][i] : i \in 1..Len(ProcessedTables[t])} :
           t \in TableIds}

ApplyKeywordMatchScore ==
    \E query \in FunctionQueries, row \in FunctionRows :
        Apply("_keyword_match_score", <<query, row>>,
              _keyword_match_score(query, row))

\* self.field_embeddings of one record after the loop of lines 131-139:
\* a vector for each of the five fields
FunctionVectors == {RInt(0 - 1), RInt(0), RInt(1)}

FunctionFieldEmbeddings ==
    [{EmbedFieldOrder[j] : j \in 1..Len(EmbedFieldOrder)} ->
        {<<v>> : v \in FunctionVectors}]

\* lines 143-150: the aggregate of the field vectors
ApplyCombinedEmbeddings ==
    \E fe \in FunctionFieldEmbeddings :
        Apply("combined_embeddings", <<fe>>, CombinedEmbeddings(fe, 1))

\* cells as pandas hands them to _clean_text: a missing cell, blank cells,
\* the placeholders in several capitalisations, padded and plain texts
CleanInputs ==
    {NA, "", " ", "   ", "not provided", "Not Provided", "NOT PROVIDED",
     "N/A", "n/a", "NA", "na", "Na", " N/A ", " AI ", "Bob", "nano"}

ApplyCleanText ==
    \E text \in CleanInputs :
        Apply("_clean_text", <<text>>, _clean_text(text))

InitFunctions ==
    /\ Init
    /\ csv = 0

NextFunctions ==
    \/ ApplyExpandQuery
    \/ ApplyKeywordMatchScore
    \/ ApplyCombinedEmbeddings
    \/ ApplyCleanText

SpecFunctions == InitFunctions /\ [][NextFunctions]_vars


(***************************************************************************)
(* Properties of search.  lastSearch is the response of a search call made *)
(* in the current state.                                                   *)
(***************************************************************************)
Answered == lastSearch.outcome = "ok"
Results == lastSearch.results

\* C1: a search that returns gives at most top_k results, in descending
\* order of final_score, results of equal final_score in the order the
\* index returned them, and with rank 1, 2, ..., len(results).
C1_TopKSortedRanked ==
    Answered =>
        /\ Len(Results) <= lastSearch.top_k
        /\ \A i \in 1..Len(Results) : \A j \in (i + 1)..Len(Results) :
              \/ RGt(Results[i].final_score, Results[j].final_score)
              \/ /\ Results[i].final_score = Results[j].final_score
                 /\ Results[i].pos < Results[j].pos
        /\ \A i \in 1..Len(Results) : Results[i].rank = i

\* a search whose candidates were reordered by the sort and cut to top_k
C1_Witness ==
    /\ Answered
    /\ Len(Results) = lastSearch.top_k
    /\ Len(lastSearch.candidates) > lastSearch.top_k
    /\ Results[1].pos > 1
    /\ Len(Results) = 2
    /\ RGt(Results[1].final_score, Results[2].final_score)

\* C2: while the model or the index is not built, search fails with
\* NotInitialized and returns no result.
C2_NotInitialized ==
    (lastSearch.outcome # "none" /\ (IsNone(model) \/ IsNone(index))) =>
        /\ lastSearch.outcome = "NotInitialized"
        /\ lastSearch.results = <<>>
        /\ lastSearch.stages = {}

\* a search on an engine whose model is loaded and whose index is not built
C2_Witness ==
    /\ lastSearch.outcome = "NotInitialized"
    /\ ~IsNone(model)
    /\ ~IsNone(faculty_data)
    /\ IsNone(index)

\* C3: a search with the empty query on an initialized engine is rejected
\* with a caller-input error before any step of the ranking pipeline runs.
C3_EmptyQueryRejected ==
    (/\ lastSearch.outcome \notin {"none", "NotInitialized"}
     /\ lastSearch.query = "") =>
        /\ lastSearch.outcome = "InputError"
        /\ lastSearch.stages = {}

TokensOf(text) ==
    {SubSeq(text, i, j) : <<i, j>> \in
        {p \in (1..Len(text)) \X (1..Len(text)) :
            /\ p[1] <= p[2]
            /\ \A n \in p[1]..p[2] : Ch(text, n) # " "
            /\ p[1] = 1 \/ Ch(text, p[1] - 1) = " "
            /\ p[2] = Len(text) \/ Ch(text, p[2] + 1) = " "}}

SpecializationMatches(query, specialization) ==
    \/ Contains(Lower(specialization), Lower(query))
    \/ \E token \in TokensOf(Lower(query)) :
          Contains(Lower(specialization), token)

\* C5: boost_applied is 1.3 when the lower-cased query, or one of its
\* whitespace-split tokens, is a substring of the lower-cased
\* specialization of the record, and 1.0 otherwise.
C5_Boost ==
    Answered =>
        \A i \in 1..Len(Results) :
            Results[i].boost_applied =
                IF SpecializationMatches(lastSearch.query,
                                         Results[i].specialization)
                THEN R(13, 10)
                ELSE RInt(1)

\* a search with one result boosted by a token alone (the whole query is
\* not in its specialization) and one result not boosted
C5_Witness ==
    /\ Answered
    /\ \E i \in 1..Len(Results) :
          /\ Results[i].boost_applied = R(13, 10)
          /\ ~Contains(Lower(Results[i].specialization),
                       Lower(lastSearch.query))
    /\ \E i \in 1..Len(Results) : Results[i].boost_applied = RInt(1)

(***************************************************************************)
(* Properties of initialize.  call[c] holds the arguments of the call of   *)
(* caller c that runs or has just returned, the path it took at line 329   *)
(* and the table its build read; outcome[c] is how it ended.               *)
(***************************************************************************)
Pipeline == {"load_data", "generate_embeddings", "build_index", "save", "dump"}

ModeOf(c) == IF call[c].use_multi_field THEN "multi" ELSE "single"

\* the records and the aggregate embeddings a build of table t computes
FreshRecords(t) == load_and_process_data(Tables[t])

FreshEmbeddings(t, mode) ==
    IF mode = "multi"
    THEN CombinedEmbeddings(
             EmbedFields(EmptyDict, FreshRecords(t), Len(EmbedFieldOrder)),
             Len(FreshRecords(t)))
    ELSE SingleEmbeddings(FreshRecords(t))

\* C6: initialize with force_rebuild = true never takes the cache branch,
\* even when a valid cache file of the requested mode is present; when it
\* returns, the engine holds the records, embeddings and index of a full
\* build of the input table, and the cache file of the mode holds these
\* records and embeddings.
C6_ForceRebuildBypassesCache ==
    \A c \in Callers :
        call[c].force_rebuild =>
            /\ call[c].path = "miss"
            /\ outcome[c] = "ok" =>
                  LET t == call[c].table
                      fresh == FreshEmbeddings(t, ModeOf(c))
                  IN  /\ t \in TableIds
                      /\ faculty_data = Some(FreshRecords(t))
                      /\ embeddings = Some(fresh)
                      /\ index = Some(build_index(fresh))
                      /\ ~IsNone(cache[ModeOf(c)])
                      /\ Val(cache[ModeOf(c)]).kind = "valid"
                      /\ Val(cache[ModeOf(c)]).faculty_data = faculty_data
                      /\ Val(cache[ModeOf(c)]).embeddings = embeddings

\* a forced rebuild that found a valid cache file of its mode and returned
C6_Witness ==
    /\ call["c1"].force_rebuild
    /\ call["c1"].hadCache
    /\ outcome["c1"] = "ok"
    /\ pc["c1"] = "idle"

\* C7: a failure while loading the cache (no file, a file that cannot be
\* read, a load that stops part-way) is not raised to the caller of
\* initialize: the call goes on with the build pipeline, and ends only as
\* the build ends.
C7_CacheFailureIsMiss ==
    \A c \in Callers :
        (call[c].path = "fallback" \/
         (call[c].path = "miss" /\ ~call[c].force_rebuild)) =>
            /\ outcome[c] \in {"running", "ok", "DataSourceMissing",
                               "ValueError",
                               "EmbeddingUnavailable", "CacheWriteError"}
            /\ outcome[c] = "running" <=> pc[c] \in Pipeline
            /\ outcome[c] = "ok" =>
                  /\ ~IsNone(embeddings)
                  /\ index = Some(build_index(Val(embeddings)))

\* a call whose cache load failed and that returned after the full build
C7_Witness ==
    /\ call["c1"].path = "fallback"
    /\ outcome["c1"] = "ok"
    /\ pc["c1"] = "idle"
    /\ ~IsNone(index)

\* C8: the embeddings a cache hit for a mode restores were generated by a
\* build in that mode, and the snapshot in the cache file of a mode was
\* written by a build in that mode.
C8_ModeSpecificCache ==
    /\ \A c \in Callers :
          (call[c].path = "hit" /\ outcome[c] = "ok") => embMode = ModeOf(c)
    /\ \A m \in Modes :
          (~IsNone(cache[m]) /\ Val(cache[m]).kind = "valid") =>
              Val(cache[m]).mode_written = m

\* a cache hit in single-field mode while a valid multi-field file exists
C8_Witness ==
    /\ call["c1"].path = "hit"
    /\ outcome["c1"] = "ok"
    /\ ~call["c1"].use_multi_field
    /\ ~IsNone(cache["multi"])
    /\ Val(cache["multi"]).kind = "valid"
    /\ Val(cache["multi"]).embeddings # embeddings

\* C9: an engine initialized from the cache file holds the aggregate
\* embeddings and the index contents of the engine whose build saved the
\* file, and answers every search as that engine did.
C9_RoundTrip ==
    \A c \in Callers :
        (call[c].path = "hit" /\ outcome[c] = "ok") =>
            LET file == Val(cache[ModeOf(c)])
            IN  /\ embeddings = file.embeddings
                /\ index = file.index_at_save
                /\ \A query \in Queries, top_k \in 1..MaxTopK,
                      use_hybrid \in BOOLEAN :
                      search(model, index, faculty_data, query, top_k,
                             use_hybrid, TRUE)
                        = search(model, file.index_at_save,
                                 file.faculty_data, query, top_k,
                                 use_hybrid, TRUE)

\* C13: when the embedding collaborator fails during the build, the call
\* of initialize ends with that failure, and no step of the call up to the
\* failure builds an index or writes a cache file: an index that was unset
\* stays unset.
C13_EmbeddingFailureIsFatal ==
    [][\A c \in Callers :
          /\ (/\ pc'[c] # pc[c] \/ call'[c] # call[c]
              /\ \/ pc'[c] \in {"load_data", "generate_embeddings"}
                 \/ outcome'[c] = "EmbeddingUnavailable")
                => index' = index /\ cache' = cache
          /\ (/\ pc[c] = "generate_embeddings"
              /\ pc'[c] = "idle"
              /\ call'[c] = call[c]) => outcome'[c] = "EmbeddingUnavailable"
          /\ outcome'[c] = "EmbeddingUnavailable" => pc'[c] = "idle"]_vars

\* a first initialize whose embedding call failed after the model was
\* loaded: no index, no cache file
C13_Witness ==
    /\ outcome["c1"] = "EmbeddingUnavailable"
    /\ ~IsNone(model)
    /\ IsNone(index)
    /\ IsNone(embeddings)
    /\ \A m \in Modes : IsNone(cache[m])

\* C14: while the input table is absent, no step of initialize succeeds
\* or makes an engine that cannot answer a search (no index) able to answer
\* one, and the step that reads the table ends the call with
\* DataSourceMissing.
C14_MissingTableIsFatal ==
    [][\A c \in Callers :
          (/\ csv = 0
           /\ IsNone(index)
           /\ pc[c] \in {"idle", "load_data"}
           /\ call'[c] # NoCall
           /\ pc'[c] # pc[c] \/ call'[c] # call[c]) =>
              /\ outcome'[c] # "ok"
              /\ IsNone(index')
              /\ pc[c] = "load_data" => outcome'[c] = "DataSourceMissing"]_vars

\* C15: get_statistics on an engine whose model or index is not built
\* fails with NotInitialized.
C15_StatisticsNotInitialized ==
    (lastStats.outcome # "none" /\ (IsNone(model) \/ IsNone(index))) =>
        lastStats.outcome = "NotInitialized"

\* C16: an initialize that reads an input table of zero records completes.
C16_ZeroRecords ==
    \A c \in Callers :
        (/\ call[c].table \in TableIds
         /\ Len(Tables[call[c].table]) = 0
         /\ pc[c] = "idle") => outcome[c] = "ok"

ValidFile(file) == ~IsNone(file) /\ Val(file).kind = "valid"

\* C12: no step of the save of initialize (lines 355-363), whether the
\* write completes, fails or is interrupted, turns a cache file that holds
\* a valid snapshot into one that does not.
C12_AtomicCacheWrite ==
    [][\A c \in Callers, m \in Modes :
          (/\ pc[c] \in {"save", "dump"}
           /\ pc'[c] # pc[c]
           /\ ValidFile(cache[m])) => ValidFile(cache'[m])]_vars

C10_BuildSerialized ==
    ~(pc["c1"] \in Pipeline /\ pc["c2"] \in Pipeline)


(***************************************************************************)
(* Properties of the helper functions, under SpecFunctions.                *)
(***************************************************************************)
\* the positions in the trigger table whose trigger is a substring of the
\* lower-cased query
MatchingTriggers(query) ==
    {j \in 1..Len(expansions) : Contains(Lower(query), expansions[j][1])}

\* C17: _expand_query returns the query followed by a space and the
\* expansion of the first trigger, in the order of the table, that is a
\* case-insensitive substring of the query, whatever later triggers match
\* as well; it returns the query unchanged when no trigger matches.
C17_FirstTriggerOnly ==
    applied.fn = "_expand_query" =>
        LET query == applied.args[1]
            matching == MatchingTriggers(query)
        IN  /\ matching = {} => applied.value = query
            /\ \A j \in matching :
                   (\A h \in matching : j <= h) =>
                       applied.value = query \o " " \o expansions[j][2]

\* a query in capitals with two triggers, expanded by the earlier one
C17_Witness ==
    /\ applied.fn = "_expand_query"
    /\ applied.args = <<"Data AI">>
    /\ MatchingTriggers("Data AI") = {2, 7}
    /\ applied.value = "Data AI artificial intelligence"

\* the keywords a field of a record shares with a set of query keywords
SharedKeywords(Q, row, field) == Q \cap _extract_keywords(RowField(row, field))

\* weight * (shared keywords / query keywords) for a meaningful field that
\* shares a keyword, and nothing for any other field
FieldShare(Q, row, field, weight) ==
    IF /\ _is_meaningful_content(RowField(row, field))
       /\ SharedKeywords(Q, row, field) # {}
    THEN RMul(weight, R(Cardinality(SharedKeywords(Q, row, field)),
                        Cardinality(Q)))
    ELSE RInt(0)

\* C18: _keyword_match_score is 0 for a query without keywords; otherwise
\* it is the sum over the fields specialization (3.0), publications (2.0),
\* biography (2.0), education (1.5) and name (0.5) that are meaningful and
\* share a keyword with the query of weight * (number of shared keywords /
\* number of query keywords); the other fields add nothing.
C18_KeywordScore ==
    applied.fn = "_keyword_match_score" =>
        LET Q == _extract_keywords(applied.args[1])
            row == applied.args[2]
        IN  applied.value =
                IF Q = {} THEN RInt(0)
                ELSE RAdd(FieldShare(Q, row, "areaSpecialization", R(3, 1)),
                     RAdd(FieldShare(Q, row, "publications", R(2, 1)),
                     RAdd(FieldShare(Q, row, "biography", R(2, 1)),
                     RAdd(FieldShare(Q, row, "facultyEducation", R(3, 2)),
                          FieldShare(Q, row, "name", R(1, 2))))))

\* a query with two keywords on a record whose biography shares one of
\* them and whose education, too short to be meaningful, shares the other
C18_Witness ==
    /\ applied.fn = "_keyword_match_score"
    /\ applied.args[1] = "phd Data"
    /\ applied.args[2].name = "Bob"
    /\ _extract_keywords("phd Data") = {"phd", "data"}
    /\ SharedKeywords({"phd", "data"}, applied.args[2], "biography") = {"data"}
    /\ SharedKeywords({"phd", "data"}, applied.args[2], "facultyEducation")
           = {"phd"}
    /\ ~_is_meaningful_content(applied.args[2].facultyEducation)
    /\ applied.value = R(1, 1)

\* the weights of the aggregation
AggregationWeights ==
    [specialization |-> R(3, 1), publications |-> R(2, 1),
     biography |-> R(2, 1), education |-> R(3, 2), name |-> R(1, 2)]

AggregationFields ==
    <<"specialization", "publications", "biography", "education", "name">>

\* the sum of term(f) over the weighted fields present in fe
SumOverPresent(fe, term(_)) ==
    RSum([j \in 1..Len(AggregationFields) |->
            IF AggregationFields[j] \in DOMAIN fe
            THEN term(AggregationFields[j]) ELSE RInt(0)])

\* weight of the field / sum of the weights of the fields present
Coefficient(fe, field) ==
    LET weight(f) == AggregationWeights[f]
    IN  RDiv(AggregationWeights[field], SumOverPresent(fe, weight))

C20_ZeroNormClamped ==
    ~IsNone(index) => \A i \in 1..Len(Val(index)) : ~IsNaN(Val(index)[i])


(***************************************************************************)
(* TextNormalizer, under SpecFunctions.                                    *)
(***************************************************************************)
PlaceholderTokens == {"", "not provided", "n/a", "na"}

\* C21: _clean_text returns the empty string for a missing or blank text
\* and for a text that is one of the placeholders "", "not provided",
\* "n/a", "na" in any capitalisation, and the trimmed text otherwise.
C21_CleanText ==
    applied.fn = "_clean_text" =>
        LET text == applied.args[1]
        IN  applied.value =
                IF \/ IsNA(text)
                   \/ Strip(text) = ""
                   \/ Lower(text) \in PlaceholderTokens
                THEN ""
                ELSE Strip(text)


(***************************************************************************)
(* The engine after failed calls of initialize, under Spec.                *)
(***************************************************************************)
\* search passes its guard of lines 259-260 and no call of initialize runs
SearchPermitted ==
    /\ ~NotInitialized(model, index)
    /\ \A c \in Callers : pc[c] = "idle"

\* C22: whenever search is permitted, after any sequence of calls of
\* initialize, forced rebuilds and calls that fail part-way among them,
\* the index holds as many vectors as the record set holds records.
C22_IndexSizeIsRecordCount ==
    SearchPermitted =>
        /\ ~IsNone(faculty_data)
        /\ Len(Val(index)) = Len(Val(faculty_data))

\* the per-field embeddings a build of table t may leave in the engine: in
\* multi-field mode those of the five fields; in single-field mode, which
\* computes none, the ones the engine held before, or none
FreshFieldEmbeddings(t, mode, before) ==
    IF mode = "multi"
    THEN {EmbedFields(EmptyDict, FreshRecords(t), Len(EmbedFieldOrder))}
    ELSE {before, EmptyDict}

\* C23: when a cache load fails and initialize falls back to the build,
\* nothing read from the discarded cache is left when initialize returns:
\* the records, the aggregate embeddings, the per-field embeddings and the
\* index are those of the build, in both modes, and so are the contents of
\* the snapshot the call saves.
C23_DiscardedCacheLeavesNothing ==
    \A c \in Callers :
        (call[c].path = "fallback" /\ outcome[c] = "ok") =>
            LET t == call[c].table
                mode == ModeOf(c)
                fresh == FreshEmbeddings(t, mode)
                fields == FreshFieldEmbeddings(t, mode,
                                               call[c].fields_before)
            IN  /\ faculty_data = Some(FreshRecords(t))
                /\ embeddings = Some(fresh)
                /\ index = Some(build_index(fresh))
                /\ field_embeddings \in fields
                /\ ~IsNone(cache[mode])
                /\ Val(cache[mode]).kind = "valid"
                /\ Val(cache[mode]).faculty_data = Some(FreshRecords(t))
                /\ Val(cache[mode]).embeddings = Some(fresh)
                /\ Val(cache[mode]).field_embeddings = field_embeddings

\* the ways a call of initialize ends with an error
InitializeErrors ==
    {"DataSourceMissing", "ValueError", "EmbeddingUnavailable",
     "CacheWriteError"}

\* C24: a call of initialize that raises on an engine that was never
\* successfully initialized, whatever step failed, leaves the engine not
\* initialized: model or index is unset, so that a later search fails with
\* NotInitialized.
C24_FailedInitializeStaysUninitialized ==
    \A c \in Callers :
        (/\ pc[c] = "idle"
         /\ outcome[c] \in InitializeErrors
         /\ ~call[c].initialized_before) =>
            NotInitialized(model, index)

=============================================================================
